---------------------------- MODULE Spec2Model ----------------------------
(***************************************************************************)
(* Ledger component MontlyExp (src/unnamed/part_000, identical logic in    *)
(* src/unnamed/part_001): React state form/rows/submitting, the            *)
(* localStorage entry under LS_KEY, the remote sheet behind sheetUrl, the  *)
(* fetches in flight and the SweetAlert confirmation dialog.               *)
(*                                                                         *)
(* A Row is modelled by its fields date, type, amount and balance.  The    *)
(* fields name and description are copied through by every handler and     *)
(* read by none of the logic (only by the dialog text and the CSV export), *)
(* so they are left out.  Amounts are integers: the fractional part of a   *)
(* JavaScript number and its non-finite values are not modelled.           *)
(*                                                                         *)
(* Spec is MontlyExp; SpecDated is MontlyExp used with entries of two      *)
(* dates; FairSpec adds that an awaited POST settles; SpecTracker is the   *)
(* component FinanceTracker (src/components/montlyexp.tsx), which has the  *)
(* remote sheet only.                                                      *)
(***************************************************************************)
EXTENDS Integers, Sequences, FiniteSets, TLC

VARIABLES
    sheetUrl,    \* TRUE iff import.meta.env.VITE_FINANCE_SHEET_URL is set
    form,        \* useState<Row>(empty)
    rows,        \* useState<Row[]>([]), newest first
    submitting,  \* useState(false)
    ls,          \* localStorage value under LS_KEY
    quotaFull,   \* TRUE iff localStorage.setItem throws in this browser
    remote,      \* rows of the remote sheet, oldest first
    gets,        \* number of fetchData calls awaiting their GET response
    post,        \* the POST request of handleSubmit in flight, if any
    dialog,      \* the delete confirmation dialog and the closure behind it
    last         \* the most recent handler step and the notification it fired

vars == <<sheetUrl, form, rows, submitting, ls, quotaFull, remote, gets, post, dialog, last>>

-----------------------------------------------------------------------------
(* Bounds of the model *)

MaxRows == 2
MaxSeed == 1
MaxGets == 2
MaxBalance == 100

-----------------------------------------------------------------------------
(* Values *)

\* A JavaScript value of type number | string held in Row.amount.
Num(n) == [k |-> "num", n |-> n, s |-> <<>>]
Str(s) == [k |-> "str", n |-> 0, s |-> s]

D1 == "2025-01-01"
D2 == "2025-01-02"

Digits == {"0", "1", "2", "3", "4", "5", "6", "7", "8", "9"}

DigitVal(c) ==
    CASE c = "0" -> 0 [] c = "1" -> 1 [] c = "2" -> 2 [] c = "3" -> 3
      [] c = "4" -> 4 [] c = "5" -> 5 [] c = "6" -> 6 [] c = "7" -> 7
      [] c = "8" -> 8 [] c = "9" -> 9

IsDigits(s) == s # <<>> /\ \A i \in 1..Len(s) : s[i] \in Digits

RECURSIVE DigitsValue(_)
DigitsValue(s) ==
    IF s = <<>> THEN 0
    ELSE DigitsValue(SubSeq(s, 1, Len(s) - 1)) * 10 + DigitVal(s[Len(s)])

\* Number(text): "" is 0, a decimal literal is its value, anything else NaN.
StringToNumber(s) ==
    IF s = <<>> THEN [nan |-> FALSE, n |-> 0]
    ELSE IF IsDigits(s) THEN [nan |-> FALSE, n |-> DigitsValue(s)]
    ELSE IF Head(s) = "-" /\ IsDigits(Tail(s))
         THEN [nan |-> FALSE, n |-> 0 - DigitsValue(Tail(s))]
    ELSE [nan |-> TRUE, n |-> 0]

\* Number(v) for v : number | string.
ToNumber(v) == IF v.k = "num" THEN [nan |-> FALSE, n |-> v.n] ELSE StringToNumber(v.s)

\* Number(v) || 0
NumberOrZero(v) == IF ToNumber(v).nan THEN 0 ELSE ToNumber(v).n

\* (t || "").toUpperCase() on the type texts of the model.
ToUpperCase(t) ==
    CASE t = "in" -> "IN"
      [] t = "out" -> "OUT"
      [] t = "inout" -> "INOUT"
      [] t = "fee" -> "FEE"
      [] OTHER -> t

Reverse(s) == [i \in 1..Len(s) |-> s[Len(s) + 1 - i]]

\* const empty: Row
empty == [date |-> "", type |-> "OUT", amount |-> Str(<<>>)]


DigitChar(d) ==
    CASE d = 0 -> "0" [] d = 1 -> "1" [] d = 2 -> "2" [] d = 3 -> "3"
      [] d = 4 -> "4" [] d = 5 -> "5" [] d = 6 -> "6" [] d = 7 -> "7"
      [] d = 8 -> "8" [] d = 9 -> "9"

\* String(n) for an integer n.
RECURSIVE NumberToString(_)
NumberToString(n) ==
    IF n < 0 THEN <<"-">> \o NumberToString(0 - n)
    ELSE IF n < 10 THEN <<DigitChar(n)>>
    ELSE NumberToString(n \div 10) \o <<DigitChar(n % 10)>>

\* String(v) for v : number | string.
StringOf(v) == IF v.k = "num" THEN NumberToString(v.n) ELSE v.s

-----------------------------------------------------------------------------
(* JSON text of a Row[]: a number is written as its decimal literal, a      *)
(* string as a quoted text.                                                 *)

JsonValue(v) ==
    IF v.k = "num" THEN [j |-> "number", text |-> NumberToString(v.n)]
    ELSE [j |-> "string", text |-> v.s]

JsonStringify(data) ==
    [i \in 1..Len(data) |->
        [date |-> data[i].date, type |-> data[i].type,
         amount |-> JsonValue(data[i].amount),
         balance |-> JsonValue(Num(data[i].balance))]]

ParseValue(tok) ==
    IF tok.j = "number" THEN Num(StringToNumber(tok.text).n) ELSE Str(tok.text)

JsonParse(text) ==
    [i \in 1..Len(text) |->
        [date |-> text[i].date, type |-> text[i].type,
         amount |-> ParseValue(text[i].amount),
         balance |-> ParseValue(text[i].balance).n]]

\* What a store slot or a response body can hold.
Absent  == [kind |-> "absent", data |-> <<>>]
Corrupt == [kind |-> "corrupt", data |-> <<>>]
Json(data) == [kind |-> "json", data |-> JsonStringify(data)]

-----------------------------------------------------------------------------
(* LocalStore *)

\* persistLocal: localStorage.setItem(LS_KEY, JSON.stringify(data)); an
\* exception of setItem is caught and ignored.
persistLocal(store, data, throws) == IF throws THEN store ELSE Json(data)

\* loadLocal: [] when the key is absent or the text does not parse.
loadLocal(store) == IF store.kind = "json" THEN JsonParse(store.data) ELSE <<>>

-----------------------------------------------------------------------------
(* Normalizer: the map of fetchData with its running total bal *)

\* normalizeFrom with the type compared as stored, not upper-cased.
RECURSIVE normalizeFromAsStored(_, _)
normalizeFromAsStored(data, bal) ==
    IF data = <<>> THEN <<>>
    ELSE LET r    == Head(data)
             amt  == NumberOrZero(r.amount)
             nb   == IF r.type = "IN" THEN bal + amt
                     ELSE IF r.type = "OUT" THEN bal - amt
                     ELSE bal
         IN  <<[r EXCEPT !.amount = Num(amt), !.balance = nb]>>
                 \o normalizeFromAsStored(Tail(data), nb)

\* normalizeFrom that adds to the balance stored with the entry instead of
\* the running total.
RECURSIVE normalizeFromStoredBalance(_, _)
normalizeFromStoredBalance(data, bal) ==
    IF data = <<>> THEN <<>>
    ELSE LET r    == Head(data)
             amt  == NumberOrZero(r.amount)
             type == ToUpperCase(r.type)
             nb   == IF type = "IN" THEN r.balance + amt
                     ELSE IF type = "OUT" THEN r.balance - amt
                     ELSE r.balance
         IN  <<[r EXCEPT !.amount = Num(amt), !.balance = nb]>>
                 \o normalizeFromStoredBalance(Tail(data), nb)

RECURSIVE normalizeFrom(_, _)
normalizeFrom(data, bal) ==
    IF data = <<>> THEN <<>>
    ELSE LET r    == Head(data)
             amt  == NumberOrZero(r.amount)
             type == ToUpperCase(r.type)
             nb   == IF type = "IN" THEN bal + amt
                     ELSE IF type = "OUT" THEN bal - amt
                     ELSE bal
         IN  <<[r EXCEPT !.amount = Num(amt), !.balance = nb]>>
                 \o normalizeFrom(Tail(data), nb)

normalize(data) == normalizeFrom(data, 0)

\* normalize with the running total kept apart from the result: every
\* balance is the entry's own signed amount.
normalizeEachAlone(data) ==
    [i \in 1..Len(data) |-> normalizeFrom(<<data[i]>>, 0)[1]]

\* fetchDataLocal over normalizeEachAlone.
fetchDataLocalEachAlone(store) == Reverse(normalizeEachAlone(loadLocal(store)))

\* The local branch of fetchData, also its catch branch: latest first.
fetchDataLocal(store) == Reverse(normalize(loadLocal(store)))

\* fetchDataRemote without the reverse().
fetchDataRemoteOldestFirst(body) == normalize(JsonParse(body.data))

\* The try branch of fetchData on a response body that parsed.
fetchDataRemote(body) == Reverse(normalize(JsonParse(body.data)))

-----------------------------------------------------------------------------
(* Inputs *)

\* What the date input, the type select and the number input deliver
\* through the onChange handlers: the form as typed when Add is pressed.
FormDates   == {"", D1}
FormTypes   == {"IN", "OUT", "INOUT"}
FormAmounts == {<<>>, <<"0">>, <<"5", "0">>}

AllForms == [date : FormDates, type : FormTypes, amount : {Str(a) : a \in FormAmounts}]

\* Raw rows a store may hold from outside this component: the type in any
\* letter case or none of IN, OUT, INOUT, the amount a number, a numeric
\* text or another text, and a balance column that need not be the running
\* balance.
SeedRows ==
    {[date |-> D1, type |-> "in", amount |-> Num(100), balance |-> 7],
     [date |-> D1, type |-> "OUT", amount |-> Str(<<"a", "b">>), balance |-> 7],
     [date |-> D1, type |-> "fee", amount |-> Str(<<"5", "0">>), balance |-> 7]}

SeqsUpTo(S, n) == UNION {[1..k -> S] : k \in 0..n}

Seeds == SeqsUpTo(SeedRows, MaxSeed)

\* What the endpoint can answer to a GET: the transport fails, or a
\* response arrives with a status and a body that is the sheet's rows as
\* JSON or a text that is no JSON.
Threw == [kind |-> "threw", ok |-> FALSE, body |-> Absent]
Response(ok, body) == [kind |-> "resp", ok |-> ok, body |-> body]
GetOutcomes(sheet) ==
    {Threw} \cup {Response(ok, b) : ok \in BOOLEAN, b \in {Corrupt, Json(sheet)}}

-----------------------------------------------------------------------------
(* Requests and the dialog *)

NoPost   == [phase |-> "none", body |-> <<>>]
NoDialog == [open |-> FALSE, index |-> 0, rows |-> <<>>]

RemoveAt(s, i) == SubSeq(s, 1, i - 1) \o SubSeq(s, i + 1, Len(s))

Abs(n) == IF n < 0 THEN 0 - n ELSE n

\* The modal dialog takes the pointer: no control of the page can be used
\* while it is open.  Responses of requests in flight still arrive.
UiFree == ~dialog.open

\* The step that ran last: the handler, the notification it fired, and for
\* a load the response it handled and whether the step before it was a load
\* as well.
Note(op, note) ==
    [op |-> op, note |-> note, ok |-> FALSE, body |-> "none", again |-> FALSE]
Loaded(g) ==
    [op |-> "loaded", note |-> "none", ok |-> g.ok,
     body |-> IF g.kind = "threw" THEN "none" ELSE g.body.kind,
     again |-> last.op = "loaded"]

-----------------------------------------------------------------------------
(* The component *)

Init ==
    /\ sheetUrl \in BOOLEAN
    /\ quotaFull \in (IF sheetUrl THEN {FALSE} ELSE BOOLEAN)
    /\ ls \in {Absent, Corrupt} \cup {Json(s) : s \in Seeds}
    /\ remote \in (IF sheetUrl THEN Seeds ELSE {<<>>})
    /\ form = empty
    /\ submitting = FALSE
    /\ rows = IF sheetUrl THEN <<>> ELSE fetchDataLocal(ls)
    /\ gets = IF sheetUrl THEN 1 ELSE 0
    /\ post = NoPost
    /\ dialog = NoDialog
    /\ last = Note("mount", "none")

\* The page is loaded again: fresh state, the mount effect calls fetchData;
\* the stores keep their contents and the old page's requests are dropped.
Mount ==
    /\ form' = empty
    /\ submitting' = FALSE
    /\ rows' = IF sheetUrl THEN <<>> ELSE fetchDataLocal(ls)
    /\ gets' = IF sheetUrl THEN 1 ELSE 0
    /\ post' = NoPost
    /\ dialog' = NoDialog
    /\ last' = Note("mount", "none")
    /\ UNCHANGED <<sheetUrl, ls, quotaFull, remote>>

\* required without the test of the date.
requiredAmountOnly(f) == f.amount = Str(<<>>) \/ f.amount = Num(0)

\* handleSubmit's guard: !form.date || form.amount === "" || form.amount === 0
required(f) == f.date = "" \/ f.amount = Str(<<>>) \/ f.amount = Num(0)

\* lastBalance and newBalance of handleSubmit.
lastBalance(rs) == IF Len(rs) > 0 THEN rs[1].balance ELSE 0

\* newBalance with INOUT counted as income.
newBalanceInoutAdds(rs, f) ==
    IF f.type \in {"IN", "INOUT"} THEN lastBalance(rs) + ToNumber(f.amount).n
    ELSE IF f.type = "OUT" THEN lastBalance(rs) - ToNumber(f.amount).n
    ELSE lastBalance(rs)

newBalance(rs, f) ==
    IF f.type = "IN" THEN lastBalance(rs) + ToNumber(f.amount).n
    ELSE IF f.type = "OUT" THEN lastBalance(rs) - ToNumber(f.amount).n
    ELSE lastBalance(rs)

newRow(rs, f) ==
    [date |-> f.date, type |-> f.type,
     amount |-> Num(ToNumber(f.amount).n), balance |-> newBalance(rs, f)]

\* The FormData of the POST: every field a text.
formData(rs, f) ==
    [date |-> f.date, type |-> f.type,
     amount |-> StringOf(f.amount), balance |-> NumberToString(newBalance(rs, f))]

\* The forms submitted: every form that passes the guard, and two that do
\* not: one with no date and one with no amount.
Forms ==
    {f \in AllForms : ~required(f)}
        \cup {[empty EXCEPT !.amount = Str(<<"5", "0">>)], [empty EXCEPT !.date = D1]}

\* prepend that puts the new row last.
prependAtEnd(row, rs) == rs \o <<row>>

\* [newRow, ...rows]
prepend(row, rs) == <<row>> \o rs

\* storageOrder without the reverse().
storageOrderAsShown(updated) == updated

\* updated.slice().reverse(): the stored order is oldest first.
storageOrder(updated) == Reverse(updated)

\* CanSubmit with the control left enabled while submitting.
CanSubmitAlways == UiFree

\* The submit control is disabled while submitting.
CanSubmit == UiFree /\ ~submitting

\* handleSubmit with the form typed as f: validation fails.
handleSubmitRequired(f) ==
    /\ CanSubmit
    /\ required(f)
    /\ form' = f
    /\ last' = Note("submit", "Required")
    /\ UNCHANGED <<sheetUrl, rows, submitting, ls, quotaFull, remote, gets, post, dialog>>

\* No sheetUrl: save locally.  setSubmitting(true) and the finally block's
\* setSubmitting(false) fall in the same synchronous run of the handler.
handleSubmitLocal(f) ==
    /\ CanSubmit
    /\ ~required(f)
    /\ ~sheetUrl
    /\ Len(rows) < MaxRows
    /\ Abs(newBalance(rows, f)) <= MaxBalance
    /\ LET updated == prepend(newRow(rows, f), rows)
       IN  /\ ls' = persistLocal(ls, storageOrder(updated), quotaFull)
           /\ rows' = updated
    /\ form' = empty
    /\ submitting' = FALSE
    /\ last' = Note("submit", "Saved (local)")
    /\ UNCHANGED <<sheetUrl, quotaFull, remote, gets, post, dialog>>

\* With a sheetUrl: the handler runs up to its await of the POST.
handleSubmitRemote(f) ==
    /\ CanSubmit
    /\ ~required(f)
    /\ sheetUrl
    /\ Len(remote) < MaxRows
    /\ gets < MaxGets
    /\ Abs(newBalance(rows, f)) <= MaxBalance
    /\ form' = f
    /\ submitting' = TRUE
    /\ post' = [phase |-> "sent", body |-> formData(rows, f)]
    /\ last' = Note("submit", "none")
    /\ UNCHANGED <<sheetUrl, rows, ls, quotaFull, remote, gets, dialog>>

\* The row the endpoint appends to the sheet for a POST.
sheetRow(body) ==
    [date |-> body.date, type |-> body.type, amount |-> Str(body.amount),
     balance |-> StringToNumber(body.balance).n]

\* The POST is answered OK, the row is in the sheet: handleSubmit resumes
\* after its await, clears the form, calls fetchData and lowers the flag.
handleSubmitSaved ==
    /\ post.phase = "sent"
    /\ remote' = Append(remote, sheetRow(post.body))
    /\ form' = empty
    /\ gets' = gets + 1
    /\ submitting' = FALSE
    /\ post' = NoPost
    /\ last' = Note("saved", "Saved")
    /\ UNCHANGED <<sheetUrl, rows, ls, quotaFull, dialog>>

\* handleSubmitFailed with the form cleared before the status is looked at.
handleSubmitFailedClearsForm ==
    /\ post.phase = "sent"
    /\ \E note \in {"Failed to save data", "Something went wrong"} :
           last' = Note("failed", note)
    /\ form' = empty
    /\ submitting' = FALSE
    /\ post' = NoPost
    /\ UNCHANGED <<sheetUrl, rows, ls, quotaFull, remote, gets, dialog>>

\* The POST is answered with another status (!resp.ok) or the transport
\* fails (the catch block); the finally block lowers the flag.
handleSubmitFailed ==
    /\ post.phase = "sent"
    /\ \E note \in {"Failed to save data", "Something went wrong"} :
           last' = Note("failed", note)
    /\ submitting' = FALSE
    /\ post' = NoPost
    /\ UNCHANGED <<sheetUrl, form, rows, ls, quotaFull, remote, gets, dialog>>

\* fetchDataRows that keeps the oldest row in memory after the loaded rows.
fetchDataRowsAdded(g, store) ==
    (IF g.kind = "resp" /\ g.body.kind = "json"
     THEN fetchDataRemote(g.body)
     ELSE fetchDataLocal(store))
        \o (IF rows = <<>> THEN <<>> ELSE <<rows[Len(rows)]>>)

\* fetchDataRows with a catch block that leaves the rows as they are.
fetchDataRowsNoFallback(g, store) ==
    IF g.kind = "resp" /\ g.body.kind = "json"
    THEN fetchDataRemote(g.body)
    ELSE rows

\* fetchData after its awaits: the rows of the body, or the catch block's
\* fallback to the local store.  The response status is not read.
fetchDataRows(g, store) ==
    IF g.kind = "resp" /\ g.body.kind = "json"
    THEN fetchDataRemote(g.body)
    ELSE fetchDataLocal(store)

\* A GET of fetchData is answered and fetchData resumes.
fetchDataDone ==
    /\ gets > 0
    /\ \E g \in GetOutcomes(remote) :
           /\ rows' = fetchDataRows(g, ls)
           /\ last' = Loaded(g)
    /\ gets' = gets - 1
    /\ UNCHANGED <<sheetUrl, form, submitting, ls, quotaFull, remote, post, dialog>>

\* handleDelete(index): the dialog opens; its then-callback keeps the rows
\* and the index of the render that was clicked.
handleDelete ==
    /\ UiFree
    /\ \E index \in 1..Len(rows) :
           dialog' = [open |-> TRUE, index |-> index, rows |-> rows]
    /\ UNCHANGED <<sheetUrl, form, rows, submitting, ls, quotaFull, remote, gets, post, last>>

\* rows.slice(0, index).concat(rows.slice(index + 1))
removeRow(rs, index) == RemoveAt(rs, index)

\* The then-callback of the dialog: !res.isConfirmed.
deleteDeclined ==
    /\ dialog.open
    /\ dialog' = NoDialog
    /\ last' = Note("declined", "none")
    /\ UNCHANGED <<sheetUrl, form, rows, submitting, ls, quotaFull, remote, gets, post>>

\* The then-callback of the dialog: confirmed.
deleteConfirmed ==
    /\ dialog.open
    /\ LET updated == removeRow(dialog.rows, dialog.index)
       IN  /\ rows' = updated
           /\ ls' = persistLocal(ls, storageOrder(updated), quotaFull)
    /\ dialog' = NoDialog
    /\ last' = Note("deleted", "Deleted")
    /\ UNCHANGED <<sheetUrl, form, submitting, quotaFull, remote, gets, post>>

Next ==
    \/ Mount
    \/ \E f \in Forms : handleSubmitRequired(f)
    \/ \E f \in Forms : handleSubmitLocal(f)
    \/ \E f \in Forms : handleSubmitRemote(f)
    \/ handleSubmitSaved
    \/ handleSubmitFailed
    \/ fetchDataDone
    \/ handleDelete
    \/ deleteDeclined
    \/ deleteConfirmed

Spec == Init /\ [][Next]_vars

\* The same component used with entries of two dates: the date input
\* delivers either day, in whatever order the user enters them.
DatedForms ==
    [date : {D1, D2}, type : {"IN", "OUT"}, amount : {Str(<<"5", "0">>)}]
        \cup {[empty EXCEPT !.date = D2]}

NextDated ==
    \/ Mount
    \/ \E f \in DatedForms : handleSubmitRequired(f)
    \/ \E f \in DatedForms : handleSubmitLocal(f)
    \/ \E f \in DatedForms : handleSubmitRemote(f)
    \/ handleSubmitSaved
    \/ handleSubmitFailed
    \/ fetchDataDone
    \/ handleDelete
    \/ deleteDeclined
    \/ deleteConfirmed

SpecDated == Init /\ [][NextDated]_vars

\* The promise of the POST settles: the browser delivers a response or a
\* network error, and the handler resumes after its await.
FairSpec == Spec /\ WF_vars(handleSubmitSaved \/ handleSubmitFailed)

-----------------------------------------------------------------------------
(* The summaries MontlyExp renders from the rows *)

\* rows.reduce((s, r) => s + (r.type === t ? Number(r.amount) : 0), 0): the
\* type is compared as it stands in the row.
RECURSIVE totalOfType(_, _)
totalOfType(rs, t) ==
    IF rs = <<>> THEN 0
    ELSE (IF Head(rs).type = t THEN ToNumber(Head(rs).amount).n ELSE 0)
             + totalOfType(Tail(rs), t)

totalIn(rs) == totalOfType(rs, "IN")
totalOut(rs) == totalOfType(rs, "OUT")

\* rows.length ? rows[0].balance || 0 : 0
currentBalance(rs) == IF Len(rs) > 0 THEN rs[1].balance ELSE 0

-----------------------------------------------------------------------------
(* FinanceTracker (src/components/montlyexp.tsx): the component without a   *)
(* local store.  It keeps form, rows and submitting; it has no persistLocal, *)
(* no loadLocal and no handleDelete, so ls, quotaFull and dialog stay put.   *)

InitTracker ==
    /\ sheetUrl \in BOOLEAN
    /\ quotaFull = FALSE
    /\ ls \in {Absent} \cup {Json(s) : s \in Seeds}
    /\ remote \in (IF sheetUrl THEN Seeds ELSE {<<>>})
    /\ form = empty
    /\ submitting = FALSE
    /\ rows = <<>>
    /\ gets = IF sheetUrl THEN 1 ELSE 0
    /\ post = NoPost
    /\ dialog = NoDialog
    /\ last = Note("mount", "none")

\* The page is loaded again; fetchData returns at once without a sheetUrl.
trackerMount ==
    /\ form' = empty
    /\ submitting' = FALSE
    /\ rows' = <<>>
    /\ gets' = IF sheetUrl THEN 1 ELSE 0
    /\ post' = NoPost
    /\ last' = Note("mount", "none")
    /\ UNCHANGED <<sheetUrl, ls, quotaFull, remote, dialog>>

\* handleSubmit's first guard: if (!sheetUrl) "Config Error".
trackerSubmitConfigError(f) ==
    /\ ~submitting
    /\ ~sheetUrl
    /\ form' = f
    /\ last' = Note("submit", "Config Error")
    /\ UNCHANGED <<sheetUrl, rows, submitting, ls, quotaFull, remote, gets, post, dialog>>

\* handleSubmit's second guard: !form.date || !form.amount, the amount a text.
trackerRequired(f) == f.date = "" \/ f.amount = Str(<<>>)

trackerSubmitRequired(f) ==
    /\ ~submitting
    /\ sheetUrl
    /\ trackerRequired(f)
    /\ form' = f
    /\ last' = Note("submit", "Required")
    /\ UNCHANGED <<sheetUrl, rows, submitting, ls, quotaFull, remote, gets, post, dialog>>

\* handleSubmit up to its await of the POST.
trackerSubmitRemote(f) ==
    /\ ~submitting
    /\ sheetUrl
    /\ ~trackerRequired(f)
    /\ Len(remote) < MaxRows
    /\ gets < MaxGets
    /\ Abs(newBalance(rows, f)) <= MaxBalance
    /\ form' = f
    /\ submitting' = TRUE
    /\ post' = [phase |-> "sent", body |-> formData(rows, f)]
    /\ last' = Note("submit", "none")
    /\ UNCHANGED <<sheetUrl, rows, ls, quotaFull, remote, gets, dialog>>

\* The POST is answered OK: "Saved", setForm(empty), fetchData(), finally.
trackerSubmitSaved ==
    /\ post.phase = "sent"
    /\ remote' = Append(remote, sheetRow(post.body))
    /\ form' = empty
    /\ gets' = gets + 1
    /\ submitting' = FALSE
    /\ post' = NoPost
    /\ last' = Note("saved", "Saved")
    /\ UNCHANGED <<sheetUrl, rows, ls, quotaFull, dialog>>

\* The POST is answered with another status, or the transport fails.
trackerSubmitFailed ==
    /\ post.phase = "sent"
    /\ \E note \in {"Failed to save data", "Something went wrong"} :
           last' = Note("failed", note)
    /\ submitting' = FALSE
    /\ post' = NoPost
    /\ UNCHANGED <<sheetUrl, form, rows, ls, quotaFull, remote, gets, dialog>>

\* fetchData after its awaits.  It has no try/catch and no caller awaits
\* it: when fetch or res.json() throws, the promise is rejected unhandled
\* and the rows stay as they are.
trackerFetchDataDone ==
    /\ gets > 0
    /\ \E g \in GetOutcomes(remote) :
           /\ rows' = IF g.kind = "resp" /\ g.body.kind = "json"
                      THEN fetchDataRemote(g.body)
                      ELSE rows
           /\ last' = Loaded(g)
    /\ gets' = gets - 1
    /\ UNCHANGED <<sheetUrl, form, submitting, ls, quotaFull, remote, post, dialog>>

NextTracker ==
    \/ trackerMount
    \/ \E f \in Forms : trackerSubmitConfigError(f)
    \/ \E f \in Forms : trackerSubmitRequired(f)
    \/ \E f \in Forms : trackerSubmitRemote(f)
    \/ trackerSubmitSaved
    \/ trackerSubmitFailed
    \/ trackerFetchDataDone

SpecTracker == InitTracker /\ [][NextTracker]_vars

-----------------------------------------------------------------------------
(* Properties *)

\* Signed amount of an entry: +amount for IN, -amount for OUT, 0 otherwise,
\* on the upper-cased type and with a non-numeric amount counted as 0.
SignedAmount(e) ==
    IF ToUpperCase(e.type) = "IN" THEN NumberOrZero(e.amount)
    ELSE IF ToUpperCase(e.type) = "OUT" THEN 0 - NumberOrZero(e.amount)
    ELSE 0

\* out carries the running balances of the chronological entries in.
RunningSum(in, out) ==
    /\ Len(out) = Len(in)
    /\ \A i \in 1..Len(in) :
           out[i].balance = (IF i = 1 THEN 0 ELSE out[i - 1].balance) + SignedAmount(in[i])

\* The newest-first list rs at position i counted from the oldest entry.
Chron(rs, i) == rs[Len(rs) + 1 - i]

\* The balances of the newest-first list rs are the running sum over its
\* own entries taken oldest first.
Folded(rs) ==
    \A i \in 1..Len(rs) :
        Chron(rs, i).balance =
            (IF i = 1 THEN 0 ELSE Chron(rs, i - 1).balance) + SignedAmount(Chron(rs, i))

\* handleSubmit on the form typed as f, whichever branch it takes.
handleSubmit(f) ==
    handleSubmitRequired(f) \/ handleSubmitLocal(f) \/ handleSubmitRemote(f)

\* C1 (as claimed): in local mode a confirmed delete on a ledger whose
\* in-memory balances are the running sum leaves every remaining in-memory
\* balance equal to the running sum over the remaining entries, oldest first.
C1_DeleteRecomputesBalances ==
    [][(~sheetUrl /\ deleteConfirmed /\ Folded(rows)) => Folded(rows')]_vars

\* The chronological input that the load shown in `last` normalized.
LoadInput ==
    IF last.op = "loaded" /\ last.body = "json"
    THEN JsonParse(JsonStringify(remote))
    ELSE loadLocal(ls)

AfterLoad == last.op = "loaded" \/ (last.op = "mount" /\ ~sheetUrl)

\* C2: after a load the in-memory rows, oldest first, carry
\* balance[i] = balance[i-1] + signedAmount(entry[i]) with balance[0] = 0 over
\* the loaded entries (IN adds, OUT subtracts on the upper-cased type, any
\* other type and a non-numeric amount count 0); no entries load as no rows.
C2_LoadIsRunningSum ==
    AfterLoad => RunningSum(LoadInput, [i \in 1..Len(rows) |-> Chron(rows, i)])

C2_Witness ==
    /\ last.op = "loaded"
    /\ Len(rows) = 2
    /\ \E i \in 1..Len(LoadInput) : ToNumber(LoadInput[i].amount).nan
    /\ \E i \in 1..Len(LoadInput) : LoadInput[i].type = "INOUT"

\* The local store holds exactly the in-memory rows, oldest first.
StoredIsRowsReversed ==
    /\ ls.kind = "json"
    /\ Len(JsonParse(ls.data)) = Len(rows)
    /\ \A i \in 1..Len(rows) : JsonParse(ls.data)[i] = rows[Len(rows) + 1 - i]

AfterLocalWrite == ~sheetUrl /\ last.note \in {"Saved (local)", "Deleted"}

C4_AppendBalance ==
    /\ last.note = "Saved (local)" =>
           rows[1].balance = lastBalance(Tail(rows)) + SignedAmount(rows[1])
    /\ last = Note("submit", "none") =>
           StringToNumber(post.body.balance).n =
               lastBalance(rows)
                 + SignedAmount([type |-> post.body.type, amount |-> Str(post.body.amount)])

C4_Witness ==
    /\ last.note = "Saved (local)"
    /\ Len(rows) = 2
    /\ rows[1].type = "INOUT"
    /\ rows[1].amount = Num(50)
    /\ rows[2].balance = 50
    /\ rows[1].balance = 50

\* C5: a submit with an empty date is rejected in every mode: rows, form,
\* local store, remote store and requests stay as they are, the submitting
\* flag stays lowered and the validation notification is fired.
C5_EmptyDateRejected ==
    [][\A f \in AllForms :
          (f.date = "" /\ handleSubmit(f)) =>
              /\ last'.note = "Required"
              /\ form' = f
              /\ ~submitting'
              /\ UNCHANGED <<rows, ls, remote, gets, post>>]_vars

C5_Witness ==
    /\ last.note = "Required"
    /\ form.date = ""
    /\ form.amount = Str(<<"5", "0">>)
    /\ Len(rows) > 0

\* C6 (as claimed): a submit whose amount is the empty text or a text of
\* numeric value 0 is rejected: no entry is added to the rows or to a store
\* and no request is issued.
C6_ZeroAmountRejected ==
    [][\A f \in AllForms :
          (NumberOrZero(f.amount) = 0 /\ handleSubmit(f)) =>
              UNCHANGED <<rows, ls, remote, gets, post>>]_vars

\* C7: when the remote append fails (a status that is not OK, or an
\* exception) the rows, the local store, the remote store and the form are
\* as before and the failure is notified.
C7_FailedAppendRecordsNothing ==
    [][(post.phase = "sent" /\ post'.phase = "none" /\ last'.op \notin {"saved", "mount"}) =>
          /\ last'.note \in {"Failed to save data", "Something went wrong"}
          /\ UNCHANGED <<rows, ls, remote, form, gets>>]_vars

C7_Witness ==
    /\ last.op = "failed"
    /\ form # empty
    /\ Len(rows) > 0
    /\ ~submitting

\* C8 (as claimed): with an endpoint configured, a read that fails by an
\* exception, an unparsable body or a status that is not OK leaves the rows
\* the normalized, newest-first contents of the local store.
C8_FailedReadFallsBack ==
    (last.op = "loaded" /\ (last.body # "json" \/ ~last.ok)) =>
        rows = fetchDataLocal(ls)

\* C9 (as claimed): while an endpoint is configured the in-memory rows
\* change only through a load (the page's first load included).
C9_RemoteRowsChangeOnlyByLoad ==
    [][(sheetUrl /\ rows' # rows) => last'.op \in {"loaded", "mount"}]_vars

\* The row that handleSubmit builds from the form typed as f, but for its
\* balance.
SameEntry(row, f) ==
    /\ row.date = f.date
    /\ row.type = f.type
    /\ row.amount = Num(NumberOrZero(f.amount))

\* C10 (as claimed): after a successful append, in either mode, the rows are
\* the new entry followed by exactly the rows that were in memory before and
\* the form is empty; in remote mode once the reload it started is done.
C10_AppendPrepends ==
    [][/\ \A f \in AllForms :
              handleSubmitLocal(f) =>
                  /\ Len(rows') = Len(rows) + 1
                  /\ SameEntry(rows'[1], f)
                  /\ Tail(rows') = rows
                  /\ form' = empty
       /\ (last.op = "saved" /\ gets = 1 /\ last'.op = "loaded") =>
              /\ Len(rows') = Len(rows) + 1
              /\ Tail(rows') = rows
              /\ form' = empty]_vars

\* C10 (amended): in local mode a successful append puts the new entry
\* before exactly the rows that were in memory and empties the form; in
\* remote mode it empties the form, leaves the rows as they are and starts a
\* reload.
C10_AppendPrependsLocally ==
    [][/\ \A f \in AllForms :
              handleSubmitLocal(f) =>
                  /\ Len(rows') = Len(rows) + 1
                  /\ SameEntry(rows'[1], f)
                  /\ Tail(rows') = rows
                  /\ form' = empty
       /\ (post.phase = "sent" /\ last'.op = "saved") =>
              /\ form' = empty
              /\ rows' = rows
              /\ gets' = gets + 1]_vars

C10_Witness ==
    /\ last.note = "Saved (local)"
    /\ Len(rows) = 2
    /\ form = empty

\* The place of a date in date order (ISO dates compare as texts).
DateOrd(d) == IF d = D1 THEN 1 ELSE 2

\* Sum of the signed amounts of the entries es.
RECURSIVE SumSigned(_)
SumSigned(es) ==
    IF es = <<>> THEN 0 ELSE SignedAmount(Head(es)) + SumSigned(Tail(es))

\* The balance after the entries of es dated d or earlier.
DateBalance(es, d) ==
    SumSigned(SelectSeq(es, LAMBDA e : DateOrd(e.date) <= DateOrd(d)))

DistinctDates(es) ==
    \A i, j \in 1..Len(es) : i # j => es[i].date # es[j].date

\* C11 (as claimed): after a load of entries with distinct dates, in
\* whatever order they were appended, each row carries the balance after
\* that entry in date order.
C11_BalancesFollowDateOrder ==
    (AfterLoad /\ DistinctDates(LoadInput)) =>
        \A i \in 1..Len(rows) : rows[i].balance = DateBalance(LoadInput, rows[i].date)

\* The annotated entry that stands at place i of the chronological entries
\* es: the stored entry with its amount coerced and the balance summed from
\* the types and amounts of es[1..i]; a stored balance is not read.
Annotated(es, i) ==
    [es[i] EXCEPT !.amount = Num(NumberOrZero(es[i].amount)),
                  !.balance = SumSigned(SubSeq(es, 1, i))]

\* C12: after every completed load the in-memory rows are the normalized
\* chronological contents of the store that was read, reversed: balances
\* come from the stored types and amounts alone, a stored balance field is
\* ignored, and the first row carries the final running balance.
C12_LoadIsReversedNormalization ==
    AfterLoad =>
        /\ Len(rows) = Len(LoadInput)
        /\ \A i \in 1..Len(LoadInput) : Chron(rows, i) = Annotated(LoadInput, i)
        /\ Len(rows) > 0 => rows[1].balance = SumSigned(LoadInput)

\* Stored [in 100 with a stale balance 7, OUT 50] loads as 50 then 100.
C12_Witness ==
    /\ last.op = "loaded"
    /\ last.body = "json"
    /\ Len(rows) = 2
    /\ LoadInput[1].balance = 7
    /\ rows[1].type = "OUT"
    /\ rows[1].balance = 50
    /\ rows[2].balance = 100

\* C13 (as claimed): a declined confirmation leaves the in-memory rows and
\* the local store as they are; a confirmation for position i takes exactly
\* the entry at i out of the in-memory rows: the list is one shorter and the
\* other entries keep their newest-first order.
C13_DeleteOnlyOnConfirmation ==
    [][/\ deleteDeclined => UNCHANGED <<rows, ls>>
       /\ deleteConfirmed =>
              /\ Len(rows') = Len(rows) - 1
              /\ rows' = RemoveAt(rows, dialog.index)]_vars

\* Sum of the coerced amounts of the entries of es whose upper-cased type
\* is t.
RECURSIVE TotalOf(_, _)
TotalOf(es, t) ==
    IF es = <<>> THEN 0
    ELSE (IF ToUpperCase(Head(es).type) = t THEN NumberOrZero(Head(es).amount) ELSE 0)
             + TotalOf(Tail(es), t)

\* C14: the final balance of a normalization (the current balance after a
\* load, 0 for no entries) is the sum of the IN amounts minus the sum of the
\* OUT amounts of the chronological entries; INOUT entries and entries of
\* another type add nothing.
C14_FinalBalanceIsInMinusOut ==
    AfterLoad => lastBalance(rows) = TotalOf(LoadInput, "IN") - TotalOf(LoadInput, "OUT")

\* A load of an entry of an unrecognized type and an OUT entry.
C14_Witness ==
    /\ AfterLoad
    /\ ~sheetUrl
    /\ Len(rows) = 2
    /\ rows[2].type = "fee"
    /\ rows[2].amount = Num(50)
    /\ rows[1].type = "OUT"
    /\ rows[1].amount = Num(50)
    /\ lastBalance(rows) = 0 - 50

\* A load completes: the mount effect's fetchData in local mode, the
\* continuation of fetchData after its GET in remote mode.
LoadStep == fetchDataDone \/ (~sheetUrl /\ Mount)

\* C15 (as claimed): a load writes to neither store, and a load that follows
\* a load with no store change in between leaves the in-memory rows as the
\* first one left them.
C15_LoadIsIdempotent ==
    [][LoadStep =>
          /\ UNCHANGED <<ls, remote>>
          /\ AfterLoad => rows' = rows]_vars

\* C15 (amended): a load writes to neither store, and a load that follows
\* a load with no store change in between and is served by the same store
\* (both by the body of the endpoint's response, or both by the local store)
\* leaves the in-memory rows as the first one left them.
C15_LoadIsIdempotentPerStore ==
    [][LoadStep =>
          /\ UNCHANGED <<ls, remote>>
          /\ (AfterLoad /\ (last'.body = "json") = (last.body = "json")) => rows' = rows]_vars

\* Two loads in succession, both served by the endpoint, with rows to show.
C15_Witness ==
    /\ last.op = "loaded"
    /\ last.again
    /\ last.body = "json"
    /\ Len(rows) = 2
    /\ rows = fetchDataRows(Response(TRUE, Json(remote)), ls)

\* The raw projection of annotated entries: the entries with no balance to
\* read (the model's records keep the field, emptied).
Raw(es) == [i \in 1..Len(es) |-> [es[i] EXCEPT !.balance = 0]]

\* C16: normalizing the raw projection of a normalized sequence gives the
\* same amounts and the same balances again, and the rows of a local load,
\* persisted oldest first and loaded again, are the same in-memory rows.
C16_NormalizeIsIdempotent ==
    AfterLoad =>
        /\ normalize(Raw(normalize(LoadInput))) = normalize(LoadInput)
        /\ last.body # "json" =>
               fetchDataLocal(persistLocal(ls, storageOrder(rows), FALSE)) = rows

\* A local load of rows that an earlier load had normalized (the text amount
\* of the seed coerced, its stored balance replaced) and an append persisted.
C16_Witness ==
    /\ ~sheetUrl
    /\ last.op = "mount"
    /\ Len(rows) = 2
    /\ rows[2].type = "fee"
    /\ rows[2].amount = Num(50)
    /\ rows[2].balance = 0
    /\ loadLocal(ls)[1] = rows[2]
    /\ normalize(Raw(Reverse(rows))) = Reverse(rows)

\* The load shown in `last` was served by the local store: the local branch
\* of fetchData, or its catch block.
ServedLocally == AfterLoad /\ last.body # "json"

\* C17: when the value under the local key is absent or is a text that does
\* not parse, a load served by the local store completes with no rows (a
\* current balance of 0) and fires no notification.
C17_UnreadableLocalLoadsEmpty ==
    (ServedLocally /\ ls.kind \in {"absent", "corrupt"}) =>
        /\ loadLocal(ls) = <<>>
        /\ rows = <<>>
        /\ lastBalance(rows) = 0
        /\ last.note = "none"

\* The catch block's load over a corrupt local value, with rows in the sheet.
C17_Witness ==
    /\ last.op = "loaded"
    /\ last.body # "json"
    /\ ls = Corrupt
    /\ remote # <<>>
    /\ rows = <<>>

\* C18 (as claimed): with no endpoint configured no request is issued, a
\* load shows the local collection, a submit either fails validation or is
\* written to the local store as its newest entry and reported saved, and
\* no configuration error is notified.
C18_LocalOnlyMode ==
    ~sheetUrl =>
        /\ gets = 0
        /\ post = NoPost
        /\ remote = <<>>
        /\ last.note # "Config Error"
        /\ last.op = "mount" => rows = fetchDataLocal(ls)
        /\ last.op = "submit" =>
               \/ last.note = "Required" /\ required(form)
               \/ /\ last.note = "Saved (local)"
                  /\ rows # <<>>
                  /\ ls.kind = "json"
                  /\ Len(loadLocal(ls)) = Len(rows)
                  /\ loadLocal(ls)[Len(rows)] = rows[1]

\* C19 (as claimed): in remote mode, with submissions that never overlap,
\* the balance sent with an append is the running balance of the sheet's
\* contents once the entry is added: the submit does not compute
\* lastBalance from rows that lag behind the sheet.
C19_SentBalanceFollowsSheet ==
    (sheetUrl /\ post.phase = "sent") =>
        StringToNumber(post.body.balance).n = SumSigned(Append(remote, sheetRow(post.body)))

\* C20: at most one submission is in flight: the submitting flag is up
\* exactly while the POST is pending, no submit can be made while it is
\* pending (the control is disabled), and every submission that raised the
\* flag ends with the flag lowered, whatever the outcome of the write; the
\* local-mode submit returns with the flag lowered.
C20_OneSubmissionInFlight ==
    /\ [](submitting <=> post.phase = "sent")
    /\ [][post.phase = "sent" => ~(\E f \in AllForms : handleSubmit(f))]_vars
    /\ [][(\E f \in AllForms : handleSubmitLocal(f)) => ~submitting']_vars
    /\ (submitting ~> ~submitting)

\* A POST that threw has ended with the flag lowered and the control usable.
C20_Witness ==
    /\ last = Note("failed", "Something went wrong")
    /\ ~submitting
    /\ post = NoPost
    /\ CanSubmit

\* C21 (as claimed): in every reachable state the displayed current balance
\* (the balance of the newest row, 0 for no rows) is the displayed total
\* income minus the displayed total expense.
C21_BalanceIsIncomeMinusExpense ==
    currentBalance(rows) = totalIn(rows) - totalOut(rows)

\* C22 (as claimed): while an endpoint is configured no step writes the
\* local store: its contents stay what they were when the page was opened.
C22_LocalStoreReadOnlyWhenRemote ==
    [][sheetUrl => ls' = ls]_vars

\* The entry e stands in the list es.
Holds(es, e) == \E j \in 1..Len(es) : es[j] = e

\* C23 (as claimed): a confirmed delete acts on the rows in memory at the
\* moment of confirmation: every row in memory then, whatever load or append
\* brought it there since Delete was clicked, is in memory afterwards unless
\* it is the deleted entry, and it is in the collection the delete persists
\* (when setItem stores it).
C23_DeleteActsOnCurrentRows ==
    [][deleteConfirmed =>
          \A i \in 1..Len(rows) :
              rows[i] # dialog.rows[dialog.index] =>
                  /\ Holds(rows', rows[i])
                  /\ ~quotaFull => Holds(loadLocal(ls'), rows[i])]_vars

=============================================================================
